---------------------------- MODULE Spec2Model ----------------------------
(***************************************************************************)
(* A model of vLoD: the scoring pass (src/LOD_edit.py) and the merge pass  *)
(* (src/merge_vcf_lod.py).                                                 *)
(*                                                                         *)
(* Text is modelled as it is in the program: a string is a sequence of     *)
(* one-character strings, a line ends with NL and its columns are          *)
(* separated by TAB.  strip, split, join, int() and str() are operators    *)
(* computed as Python computes them.                                       *)
(*                                                                         *)
(* The module holds five specifications over one set of variables:         *)
(*   SpecChunk     chunkify as a function of its two arguments             *)
(*   SpecPileup    the pileup loop of one variant, its aggregation and     *)
(*                 the classification of its results                       *)
(*   SpecRun       the scoring run: chunking, the process pool, the        *)
(*                 collection of the results and the output table          *)
(*   SpecMerge     the merge pass on a VCF and a detectability table       *)
(*   SpecPipeline  the scoring pass followed by the merge pass on the      *)
(*                 same VCF                                                *)
(* Each specification leaves the variables of the others at their idle     *)
(* values.                                                                 *)
(***************************************************************************)
EXTENDS Integers, Sequences, FiniteSets, TLC

VARIABLES
    pc,                     \* position of the main program
    \* ---- chunkify (SpecChunk)
    lst, num_chunks, ret,
    \* ---- one variant's pileup (SpecPileup)
    line, chrom, pos, ref, alt_alleles, pileup, ref_count, allele_counts,
    informative, params, results, detectability_results,
    \* ---- the scoring run (SpecRun)
    vcf_lines, num_processes, chunks, task, handle, handle_used_by,
    future, finished, output_file,
    \* ---- the merge pass (SpecMerge, SpecPipeline)
    vcf_file, table, detectability_data_dict, info_added, info_idx,
    line_no, updated_vcf_lines, out_vcf

chunkVars  == <<lst, num_chunks, ret>>
pileupVars == <<line, chrom, pos, ref, alt_alleles, pileup, ref_count,
                allele_counts, informative, params, results,
                detectability_results>>
runVars    == <<vcf_lines, num_processes, chunks, task, handle,
                handle_used_by, future, finished, output_file>>
mergeVars  == <<vcf_file, table, detectability_data_dict, info_added,
                info_idx, line_no, updated_vcf_lines, out_vcf>>
vars == <<pc, chunkVars, pileupVars, runVars, mergeVars>>

(***************************************************************************)
(* Bounds of the model.                                                    *)
(***************************************************************************)
MaxLen == 6         \* longest list handed to chunkify
MaxW == 7           \* largest requested chunk or worker count
MaxReads == 3       \* reads in the pileup of one variant
MaxLines == 2       \* lines of an input VCF
MaxProcs == 2       \* largest requested process count of a run
MaxVcf == 3         \* lines of the VCF handed to the merge pass
MaxRows == 2        \* rows of a detectability table

(***************************************************************************)
(* Arithmetic and text helpers.                                            *)
(***************************************************************************)
Min(a, b) == IF a <= b THEN a ELSE b
Max(a, b) == IF a >= b THEN a ELSE b

TAB == "\t"
NL == "\n"
SP == " "
Whitespace == {SP, TAB, NL, "\r"}
Digits == <<"0", "1", "2", "3", "4", "5", "6", "7", "8", "9">>
DigitSet == {Digits[i] : i \in 1..10}

RECURSIVE SeqSum(_)
SeqSum(s) == IF s = <<>> THEN 0 ELSE Head(s) + SeqSum(Tail(s))

RECURSIVE Flatten(_)
Flatten(ss) == IF ss = <<>> THEN <<>> ELSE Head(ss) \o Flatten(Tail(ss))

\* str.startswith
StartsWith(s, p) == Len(s) >= Len(p) /\ SubSeq(s, 1, Len(p)) = p

\* str.strip(): leading and trailing whitespace removed
RECURSIVE LStrip(_)
LStrip(s) == IF s # <<>> /\ Head(s) \in Whitespace THEN LStrip(Tail(s)) ELSE s
RECURSIVE RStrip(_)
RStrip(s) ==
    IF s # <<>> /\ s[Len(s)] \in Whitespace
    THEN RStrip(SubSeq(s, 1, Len(s) - 1)) ELSE s
Strip(s) == LStrip(RStrip(s))

\* str.split(sep) for a one-character separator: "" splits to [""]
RECURSIVE SplitAcc(_, _, _)
SplitAcc(s, sep, cur) ==
    IF s = <<>> THEN <<cur>>
    ELSE IF Head(s) = sep THEN <<cur>> \o SplitAcc(Tail(s), sep, <<>>)
    ELSE SplitAcc(Tail(s), sep, Append(cur, Head(s)))
Split(s, sep) == SplitAcc(s, sep, <<>>)

\* str.split() without a separator: runs of whitespace separate, no empty words
RECURSIVE SplitWsAcc(_, _)
SplitWsAcc(s, cur) ==
    IF s = <<>> THEN (IF cur = <<>> THEN <<>> ELSE <<cur>>)
    ELSE IF Head(s) \in Whitespace
         THEN (IF cur = <<>> THEN <<>> ELSE <<cur>>) \o SplitWsAcc(Tail(s), <<>>)
    ELSE SplitWsAcc(Tail(s), Append(cur, Head(s)))
SplitWs(s) == SplitWsAcc(s, <<>>)

\* sep.join(parts)
RECURSIVE Join(_, _)
Join(parts, sep) ==
    IF parts = <<>> THEN <<>>
    ELSE IF Len(parts) = 1 THEN Head(parts)
    ELSE Head(parts) \o <<sep>> \o Join(Tail(parts), sep)

\* int(s): surrounding whitespace and one sign are accepted, then digits only
IntBody(s) ==
    LET t == Strip(s)
    IN  IF t # <<>> /\ Head(t) \in {"+", "-"} THEN Tail(t) ELSE t
IsInt(s) ==
    /\ IntBody(s) # <<>>
    /\ \A i \in 1..Len(IntBody(s)) : IntBody(s)[i] \in DigitSet
DigitVal(c) == (CHOOSE i \in 1..10 : Digits[i] = c) - 1
RECURSIVE NatVal(_)
NatVal(s) ==
    IF s = <<>> THEN 0
    ELSE 10 * NatVal(SubSeq(s, 1, Len(s) - 1)) + DigitVal(s[Len(s)])
ParseInt(s) ==
    IF Head(Strip(s)) = "-" THEN 0 - NatVal(IntBody(s)) ELSE NatVal(IntBody(s))

\* str(n) of an integer
RECURSIVE NatStr(_)
NatStr(n) ==
    IF n < 10 THEN <<Digits[n + 1]>>
    ELSE NatStr(n \div 10) \o <<Digits[(n % 10) + 1]>>
IntStr(n) == IF n < 0 THEN <<"-">> \o NatStr(0 - n) ELSE NatStr(n)

(***************************************************************************)
(* chunkify (LOD_edit.py 91-98).                                           *)
(***************************************************************************)
chunkify(l, n) ==
    LET nc == Min(n, Len(l))
    IN  IF nc <= 0 THEN <<l>>
        ELSE LET chunk_size == Max(1, Len(l) \div nc)
                 count == (Len(l) + chunk_size - 1) \div chunk_size
             IN  [k \in 1..count |->
                    SubSeq(l, (k - 1) * chunk_size + 1,
                           Min(k * chunk_size, Len(l)))]


(***************************************************************************)
(* The pileup of one variant (LOD_edit.py 17-86) and the classification    *)
(* of its results (LOD_edit.py 194-213).                                   *)
(*                                                                         *)
(* A pileup read is [is_refskip, is_del, bases, indel]: bases is the       *)
(* read's query_sequence from its query_position on, indel the signed      *)
(* length of the indel that follows the position.                          *)
(*                                                                         *)
(* The calibration probabilities are held in units of 1/10000.  A lod is   *)
(* kept exactly, as the likelihood ratio it is the log10 of:               *)
(*   [kind |-> "-inf"]  or  [kind |-> "log10", num |-> n, den |-> d]       *)
(* and a reported score is a lod or the integer 0, [kind |-> "int0"].      *)
(***************************************************************************)
\* a VCF data line of eight columns
DataLine(c, p, r, a) ==
    Join(<<c, p, <<".">>, r, a, <<".">>, <<".">>, <<"D", "P">>>>, TAB) \o <<NL>>

\* the keys of {allele: 0 for allele in alt_alleles}, in insertion order
RECURSIVE DictKeys(_)
DictKeys(s) ==
    IF s = <<>> THEN <<>>
    ELSE LET rest == DictKeys(SubSeq(s, 1, Len(s) - 1))
             last == s[Len(s)]
         IN  IF \E i \in 1..Len(rest) : rest[i] = last THEN rest
             ELSE Append(rest, last)

MaxAltLen(alts) == CHOOSE m \in {Len(alts[i]) : i \in 1..Len(alts)} :
                        \A i \in 1..Len(alts) : Len(alts[i]) <= m

\* the counters, as the pair the loop body updates
Counters(rc, ac) == [ref_count |-> rc, allele_counts |-> ac]

\* lines 68-73: the indel branch, one pass over alt_alleles
RECURSIVE IndelLoop(_, _, _, _)
IndelLoop(cnt, r, alts, indel) ==
    IF alts = <<>> THEN cnt
    ELSE LET a == Head(alts)
             next ==
                IF indel = Len(a) - Len(r)
                THEN Counters(cnt.ref_count,
                        [cnt.allele_counts EXCEPT ![a] = @ + 1])
                ELSE IF indel = 0
                THEN Counters(cnt.ref_count + 1, cnt.allele_counts)
                ELSE cnt
         IN  IndelLoop(next, r, Tail(alts), indel)

\* lines 50-53 and 62-65: a read's bases against the reference, then the dict
MatchBases(cnt, r, seq) ==
    IF seq = r THEN Counters(cnt.ref_count + 1, cnt.allele_counts)
    ELSE IF seq \in DOMAIN cnt.allele_counts
    THEN Counters(cnt.ref_count, [cnt.allele_counts EXCEPT ![seq] = @ + 1])
    ELSE cnt

\* lines 38-73: the body of the loop over the reads of the pileup column
CountRead(cnt, r, alts, read) ==
    IF read.is_refskip THEN cnt
    ELSE LET ref_len == Len(r)
             alt_len == MaxAltLen(alts)
         IN  IF ref_len = alt_len
             THEN IF read.is_del THEN cnt
                  ELSE MatchBases(cnt, r,
                          SubSeq(read.bases, 1, Min(ref_len, Len(read.bases))))
             ELSE IndelLoop(cnt, r, alts, read.indel)

RECURSIVE CountReads(_, _, _, _)
CountReads(cnt, r, alts, reads) ==
    IF reads = <<>> THEN cnt
    ELSE CountReads(CountRead(cnt, r, alts, Head(reads)), r, alts, Tail(reads))

\* lines 78-80: vaf, the likelihood ratio and its log10
Lod(alt_count, total_count, par) ==
    LET num == par.p_tp * alt_count
        den == (total_count - alt_count) * par.p_se + alt_count * par.p_fp
    IN  IF total_count > 0 /\ num > 0
        THEN [kind |-> "log10", num |-> num, den |-> den]
        ELSE [kind |-> "-inf"]

\* lines 76-86: one result per key of allele_counts
Aggregate(c, p, r, alts, cnt, par) ==
    LET keys == DictKeys(alts)
        total_count == cnt.ref_count +
            SeqSum([i \in 1..Len(keys) |-> cnt.allele_counts[keys[i]]])
    IN  [i \in 1..Len(keys) |->
            [chrom |-> c, pos |-> p, ref |-> r, alt |-> keys[i],
             lod |-> Lod(cnt.allele_counts[keys[i]], total_count, par),
             coverage |-> total_count,
             num_variant_reads |-> cnt.allele_counts[keys[i]]]]

\* x >= 2.50 for a score x: log10(n/d) >= 5/2 iff (n/d)^2 >= 10^5.  With
\* n = 316 d + r (0 <= r < d) that is 632 d r + r^2 >= 144 d^2, in integers
\* small enough not to overflow.
GE250(x) ==
    IF x.kind # "log10" THEN FALSE
    ELSE LET q == x.num \div x.den
             r == x.num % x.den
         IN  IF q >= 317 THEN TRUE
             ELSE IF q < 316 THEN FALSE
             ELSE 632 * x.den * r + r * r >= 144 * x.den * x.den

RowCondition(res) == res.lod.kind = "-inf" \/ res.coverage <= 1

\* lines 195-213: the score and the label of one result
ClassifyLoose(res) ==
    LET score == IF res.lod.kind = "-inf" \/ res.coverage < 1
                 THEN [kind |-> "int0"] ELSE res.lod
    IN  [chrom |-> res.chrom, pos |-> res.pos, ref |-> res.ref,
         alt |-> res.alt, detectability_score |-> score,
         detectability_condition |->
            IF GE250(score) THEN "Detectable" ELSE "Non-detectable"]

Classify(res) ==
    LET score == IF RowCondition(res) THEN [kind |-> "int0"] ELSE res.lod
    IN  [chrom |-> res.chrom, pos |-> res.pos, ref |-> res.ref,
         alt |-> res.alt, detectability_score |-> score,
         detectability_condition |->
            IF GE250(score) THEN "Detectable" ELSE "Non-detectable"]

(***************************************************************************)
(* Inputs of the model: alleles, reads, calibration probabilities.         *)
(***************************************************************************)
RefAlts ==
    { <<<<"A">>, <<"T">>>>,                                \* SNV
      <<<<"A">>, <<"T", ",", "G">>>>,                      \* SNV, two alleles
      <<<<"A", "C">>, <<"T", "G">>>>,                      \* MNV
      <<<<"A">>, <<"A", "T", "T">>>>,                      \* insertion
      <<<<"A", "T">>, <<"A">>>>,                           \* deletion
      <<<<"A">>, <<"A", "T", ",", "A", "T", "T">>>>,       \* two insertions
      <<<<"A">>, <<"T", ",", "A", "T", "T">>>> }           \* SNV with insertion

Read(skip, del, bases, indel) ==
    [is_refskip |-> skip, is_del |-> del, bases |-> bases, indel |-> indel]

PileupReads ==
    { Read(FALSE, FALSE, <<"A", "C">>, 0),
      Read(FALSE, FALSE, <<"T", "G">>, 0),
      Read(FALSE, FALSE, <<"G">>, 0),
      Read(FALSE, FALSE, <<"A", "T">>, 2),
      Read(FALSE, FALSE, <<"A", "T">>, 1),
      Read(FALSE, FALSE, <<"A", "C">>, 0 - 1),
      Read(FALSE, TRUE, <<>>, 0),
      Read(TRUE, FALSE, <<>>, 0) }

RECURSIVE SeqsUpTo(_, _)
SeqsUpTo(S, n) ==
    IF n = 0 THEN {<<>>}
    ELSE LET shorter == SeqsUpTo(S, n - 1)
         IN  shorter \cup {Append(s, x) : s \in shorter, x \in S}

\* --TP, --FP, --SE in units of 1/10000: the defaults, and a noisier sequencer
Calibrations ==
    { [p_tp |-> 9990, p_fp |-> 10, p_se |-> 1],
      [p_tp |-> 9990, p_fp |-> 10, p_se |-> 20] }

(***************************************************************************)
(* The scoring run (LOD_edit.py 9-88 as a pool task, 144-253 as main).     *)
(***************************************************************************)
\* the alignment file: the reads pysam piles up at a position
Bam(c, p) ==
    IF p = 7 THEN <<Read(FALSE, FALSE, <<"A", "C">>, 0),
                    Read(FALSE, FALSE, <<"T", "G">>, 0),
                    Read(FALSE, FALSE, <<"T", "G">>, 0)>>
    ELSE IF p = 8 THEN <<Read(FALSE, FALSE, <<"G">>, 0),
                         Read(TRUE, FALSE, <<>>, 0)>>
    ELSE <<>>

\* lines 150-157: the lines main keeps
IsVariantLine(l) ==
    /\ ~StartsWith(l, <<"#">>)
    /\ IsInt(Split(Strip(l), TAB)[2])

RECURSIVE SelectLines(_)
SelectLines(ls) ==
    IF ls = <<>> THEN <<>>
    ELSE IF IsVariantLine(Head(ls)) THEN <<Head(ls)>> \o SelectLines(Tail(ls))
    ELSE SelectLines(Tail(ls))

\* lines 17-86 for one line of a chunk
ProcessLine(l, par) ==
    LET fields == Split(Strip(l), TAB)
        c == fields[1]
        p == ParseInt(fields[2])
        r == fields[4]
        alts == Split(fields[5], ",")
        zero == Counters(0, [a \in {alts[i] : i \in 1..Len(alts)} |-> 0])
    IN  Aggregate(c, p, r, alts, CountReads(zero, r, alts, Bam(c, p)), par)

\* str(x) of a score: the integer 0, or a float, whose text stands for the
\* repr of log10(num/den)
ScoreStr(x) ==
    IF x.kind = "int0" THEN <<"0">>
    ELSE <<"l", "g", "(">> \o NatStr(x.num) \o <<"/">> \o NatStr(x.den)
            \o <<")">>

Detectable == <<"D", "e", "t", "e", "c", "t", "a", "b", "l", "e">>
NonDetectable == <<"N", "o", "n", "-", "d", "e", "t", "e", "c", "t", "a", "b",
                   "l", "e">>
ConditionStr(c) == IF c = "Detectable" THEN Detectable ELSE NonDetectable

\* the column names of the table (lines 184 and 250)
ChromCol == <<"C", "h", "r", "o", "m">>
PosCol == <<"P", "o", "s">>
RefCol == <<"R", "e", "f">>
AltCol == <<"A", "l", "t">>
ScoreCol == <<"D", "e", "t", "e", "c", "t", "a", "b", "i", "l", "i", "t",
    "y", "_", "S", "c", "o", "r", "e">>
ConditionCol == <<"D", "e", "t", "e", "c", "t", "a", "b", "i", "l", "i",
    "t", "y", "_", "C", "o", "n", "d", "i", "t", "i", "o", "n">>
CoverageCol == <<"C", "o", "v", "e", "r", "a", "g", "e">>
ReadsCol == <<"V", "a", "r", "i", "a", "n", "t", "_", "R", "e", "a", "d",
    "s">>

\* the header row of the table, by column
TableHeader ==
    <<ChromCol, PosCol, RefCol, AltCol, ScoreCol, ConditionCol, CoverageCol,
      ReadsCol>>

\* lines 225-246 and 253: the row of one classified result, its coverage and
\* read count looked up in the first result with the same identity
OutputRow(det, res) ==
    LET first == CHOOSE i \in 1..Len(res) :
                    /\ res[i].chrom = det.chrom /\ res[i].pos = det.pos
                    /\ res[i].ref = det.ref /\ res[i].alt = det.alt
                    /\ \A j \in 1..(i - 1) :
                        ~(/\ res[j].chrom = det.chrom /\ res[j].pos = det.pos
                          /\ res[j].ref = det.ref /\ res[j].alt = det.alt)
    IN  <<det.chrom, IntStr(det.pos), det.ref, det.alt,
          ScoreStr(det.detectability_score),
          ConditionStr(det.detectability_condition),
          IntStr(res[first].coverage), IntStr(res[first].num_variant_reads)>>

\* Future.result() of a task that has ended: it raises the task's exception
ResultRaisesNever(t) == FALSE
ResultRaises(t) == t.status = "failed"

\* list(executor.map(...)) yields the futures in the order of submission
NextCompleted(collected, done_order) ==
    IF Len(collected) < Len(done_order)
    THEN done_order[Len(collected) + 1] ELSE Len(collected) + 1
NextToCollect(collected, done_order) == Len(collected) + 1

\* The handle is a local of process_vcf_chunk and the function never calls
\* close(): when the function is left, the handle is closed if the
\* interpreter finalizes the object at once, and stays open otherwise.
HandleAfterExit == {"closed", "open"}

(***************************************************************************)
(* The merge pass (merge_vcf_lod.py 10-55).                                *)
(*                                                                         *)
(* The table is a sequence of rows, a row a sequence of column texts, the  *)
(* first row the header.  pandas.read_csv types each column from all of    *)
(* its values: a column whose every value is an integer literal is read    *)
(* as integers, any other as the texts themselves.  A typed value is the   *)
(* pair <<type, canonical text>>; two values of different types are never  *)
(* equal, as a Python int and a Python str are not.                        *)
(***************************************************************************)
IntV(n) == <<"int", IntStr(n)>>
StrV(t) == <<"str", t>>

\* the index of the column a name of the header row stands for
ColumnOf(tbl, name) == CHOOSE j \in 1..Len(tbl[1]) : tbl[1][j] = name

\* line 12: the value pandas gives the column `name` in data row i
ColumnIsInt(tbl, name) ==
    \A i \in 2..Len(tbl) : IsInt(tbl[i][ColumnOf(tbl, name)])
CellValue(tbl, i, name) ==
    IF ColumnIsInt(tbl, name)
    THEN IntV(ParseInt(tbl[i][ColumnOf(tbl, name)]))
    ELSE StrV(tbl[i][ColumnOf(tbl, name)])

\* the text an f-string gives a score read from the table: an integer column
\* prints integers, a float column prints every value as a float
ScoreText(tbl, i) ==
    LET text == tbl[i][ColumnOf(tbl, ScoreCol)]
    IN  IF ColumnIsInt(tbl, ScoreCol) THEN IntStr(ParseInt(text))
        ELSE IF IsInt(text) THEN IntStr(ParseInt(text)) \o <<".", "0">>
        ELSE text

Yes == <<"Y", "e", "s">>
No == <<"N", "o">>

\* line 15: the key of data row i
RowKey(tbl, i) ==
    <<CellValue(tbl, i, ChromCol), CellValue(tbl, i, PosCol),
      CellValue(tbl, i, RefCol), CellValue(tbl, i, AltCol)>>

\* lines 13-18: the dictionary after the rows 2..n of the table; a later row
\* replaces an earlier row of the same key
RECURSIVE BuildDict(_, _)
BuildDict(tbl, n) ==
    IF n <= 1 THEN <<>>
    ELSE LET before == BuildDict(tbl, n - 1)
             entry == [condition |->
                            IF tbl[n][ColumnOf(tbl, ConditionCol)] = Detectable
                            THEN Yes ELSE No,
                       score |-> ScoreText(tbl, n)]
             key == RowKey(tbl, n)
         IN  [k \in (DOMAIN before) \cup {key} |->
                    IF k = key THEN entry ELSE before[k]]

\* lines 34-35, the descriptions left out
DetHeader == <<"#", "#", "I", "N", "F", "O", "=", "<", "I", "D", "=", "D",
               "E", "T", ">", NL>>
DetsHeader == <<"#", "#", "I", "N", "F", "O", "=", "<", "I", "D", "=", "D",
                "E", "T", "S", ">", NL>>

\* lines 30-37: what an ##INFO line appends
InfoLinesAlways(l, added) == <<l, DetHeader, DetsHeader>>
InfoLines(l, added) ==
    IF added THEN <<l>> ELSE <<l, DetHeader, DetsHeader>>

\* line 29: header.index("INFO"), or -1 when the word is missing
IndexOfInfo(words) ==
    IF \E i \in 1..Len(words) : words[i] = <<"I", "N", "F", "O">>
    THEN (CHOOSE i \in 1..Len(words) :
            /\ words[i] = <<"I", "N", "F", "O">>
            /\ \A j \in 1..(i - 1) : words[j] # <<"I", "N", "F", "O">>) - 1
    ELSE 0 - 1

IsHeaderLine(l) == StartsWith(l, <<"#">>)

\* line 43: the alternate of the key is the whole ALT column
RecordAltFirstAllele(columns) == Head(Split(columns[5], ","))
RecordAlt(columns) == columns[5]

RecordKey(columns) ==
    <<StrV(columns[1]), IntV(ParseInt(columns[2])), StrV(columns[4]),
      StrV(RecordAlt(columns))>>

\* lines 27-51 raise on this line: "INFO" missing from the #C line, too few
\* columns, a position int() rejects, or a match before any #C line
LineRaises(l, dict, idx) ==
    IF IsHeaderLine(l)
    THEN StartsWith(l, <<"#", "C">>) /\ IndexOfInfo(SplitWs(Strip(l))) < 0
    ELSE LET columns == Split(Strip(l), TAB)
         IN  IF Len(columns) < 5 THEN TRUE
             ELSE IF ~IsInt(columns[2]) THEN TRUE
             ELSE /\ RecordKey(columns) \in DOMAIN dict
                  /\ (idx < 0 \/ idx + 1 > Len(columns))

\* lines 41-51: the line written for a data line
DataOutput(l, dict, idx) ==
    LET columns == Split(Strip(l), TAB)
        key == RecordKey(columns)
    IN  IF key \in DOMAIN dict
        THEN Join([columns EXCEPT ![idx + 1] =
                        @ \o <<";", "D", "E", "T", "=">> \o dict[key].condition
                          \o <<";", "D", "E", "T", "S", "=">> \o dict[key].score],
                  TAB) \o <<NL>>
        ELSE l

\* the whole scoring pass as a function of the VCF: the table it writes
ScoringPass(vcf, par) ==
    LET kept == SelectLines(vcf)
        res == Flatten([i \in 1..Len(kept) |-> ProcessLine(kept[i], par)])
        det == [i \in 1..Len(res) |-> Classify(res[i])]
    IN  <<TableHeader>> \o [i \in 1..Len(det) |-> OutputRow(det[i], res)]

(***************************************************************************)
(* Idle values of each group of variables.                                 *)
(***************************************************************************)
ChunkIdle == lst = <<>> /\ num_chunks = 0 /\ ret = <<>>
PileupIdle ==
    /\ line = <<>> /\ chrom = <<>> /\ pos = 0
    /\ ref = <<>> /\ alt_alleles = <<>> /\ pileup = <<>>
    /\ ref_count = 0 /\ allele_counts = <<>> /\ informative = 0
    /\ params = <<>> /\ results = <<>> /\ detectability_results = <<>>
RunIdle ==
    /\ vcf_lines = <<>> /\ num_processes = 0 /\ chunks = <<>>
    /\ task = <<>> /\ handle = <<>> /\ handle_used_by = <<>>
    /\ future = <<>> /\ finished = <<>> /\ output_file = "absent"
MergeIdle ==
    /\ vcf_file = <<>> /\ table = <<>> /\ detectability_data_dict = <<>>
    /\ info_added = FALSE /\ info_idx = 0 /\ line_no = 0
    /\ updated_vcf_lines = <<>> /\ out_vcf = "absent"

(***************************************************************************)
(* SpecChunk: chunkify applied to any list and any requested count.        *)
(***************************************************************************)
InitChunk ==
    /\ pc = "call"
    /\ \E short \in 0..MaxLen : lst = [i \in 1..(MaxLen - short) |-> i]
    /\ num_chunks \in (0 - 2)..MaxW
    /\ ret = <<>>
    /\ PileupIdle /\ RunIdle /\ MergeIdle

Chunkify ==
    /\ pc = "call"
    /\ ret' = chunkify(lst, num_chunks)
    /\ pc' = "return"
    /\ UNCHANGED <<lst, num_chunks, pileupVars, runVars, mergeVars>>

NextChunk == Chunkify
SpecChunk == InitChunk /\ [][NextChunk]_vars

\* C3: chunkify(lst, W) returns exactly min(W, L) chunks, or exactly one
\* chunk when W <= 0.
C3_ChunkCount ==
    pc = "return" =>
        Len(ret) = IF num_chunks <= 0 THEN 1 ELSE Min(num_chunks, Len(lst))

(***************************************************************************)
(* SpecPileup: one variant line, from its parse to its classified rows.    *)
(***************************************************************************)
InitPileup ==
    /\ pc = "line"
    /\ \E ra \in RefAlts : line = DataLine(<<"1">>, <<"7">>, ra[1], ra[2])
    /\ pileup \in SeqsUpTo(PileupReads, MaxReads)
    /\ params \in Calibrations
    /\ chrom = <<>> /\ pos = 0 /\ ref = <<>> /\ alt_alleles = <<>>
    /\ ref_count = 0 /\ allele_counts = <<>> /\ informative = 0
    /\ results = <<>> /\ detectability_results = <<>>
    /\ ChunkIdle /\ RunIdle /\ MergeIdle

\* lines 18-19 and 32-34
StartVariant ==
    /\ pc = "line"
    /\ LET fields == Split(Strip(line), TAB)
       IN  /\ chrom' = fields[1]
           /\ pos' = ParseInt(fields[2])
           /\ ref' = fields[4]
           /\ alt_alleles' = Split(fields[5], ",")
           /\ allele_counts' =
                [a \in {Split(fields[5], ",")[i] :
                            i \in 1..Len(Split(fields[5], ","))} |-> 0]
    /\ ref_count' = 0
    /\ pc' = "pileup"
    /\ UNCHANGED <<line, pileup, informative, params, results,
                   detectability_results, chunkVars, runVars, mergeVars>>

\* lines 37-73, one read; informative counts the reads that are not
\* reference-skips and were classified
PileupRead ==
    /\ pc = "pileup"
    /\ pileup # <<>>
    /\ LET cnt == CountRead(Counters(ref_count, allele_counts), ref,
                            alt_alleles, Head(pileup))
       IN  /\ ref_count' = cnt.ref_count
           /\ allele_counts' = cnt.allele_counts
           /\ informative' =
                IF cnt # Counters(ref_count, allele_counts)
                THEN informative + 1 ELSE informative
    /\ pileup' = Tail(pileup)
    /\ UNCHANGED <<pc, line, chrom, pos, ref, alt_alleles, params, results,
                   detectability_results, chunkVars, runVars, mergeVars>>

\* lines 76-86
AggregateVariant ==
    /\ pc = "pileup"
    /\ pileup = <<>>
    /\ results' = Aggregate(chrom, pos, ref, alt_alleles,
                            Counters(ref_count, allele_counts), params)
    /\ pc' = "aggregated"
    /\ UNCHANGED <<line, chrom, pos, ref, alt_alleles, pileup, ref_count,
                   allele_counts, informative, params,
                   detectability_results, chunkVars, runVars, mergeVars>>

\* lines 194-213
ClassifyResults ==
    /\ pc = "aggregated"
    /\ detectability_results' = [i \in 1..Len(results) |-> Classify(results[i])]
    /\ pc' = "classified"
    /\ UNCHANGED <<line, chrom, pos, ref, alt_alleles, pileup, ref_count,
                   allele_counts, informative, params, results,
                   chunkVars, runVars, mergeVars>>

NextPileup ==
    \/ StartVariant
    \/ PileupRead
    \/ AggregateVariant
    \/ ClassifyResults
SpecPileup == InitPileup /\ [][NextPileup]_vars

\* C1: a result with T <= 1 or c_a = 0 is reported with score 0 and label
\* Non-detectable; any other result is reported with its lod as score, and is
\* Detectable exactly when that lod is at least 2.50.
C1_ScoreAndLabel ==
    pc = "classified" =>
        /\ Len(detectability_results) = Len(results)
        /\ \A i \in 1..Len(results) :
            LET c_a == results[i].num_variant_reads
                T == results[i].coverage
                out == detectability_results[i]
            IN  IF T <= 1 \/ c_a = 0
                THEN /\ out.detectability_score = [kind |-> "int0"]
                     /\ out.detectability_condition = "Non-detectable"
                ELSE /\ out.detectability_score = Lod(c_a, T, params)
                     /\ out.detectability_score.kind = "log10"
                     /\ out.detectability_condition =
                            IF GE250(Lod(c_a, T, params))
                            THEN "Detectable" ELSE "Non-detectable"

\* C1 witness: in one classified variant, a result at or above the threshold
\* and a result with a finite lod below it
C1_Witness ==
    /\ pc = "classified"
    /\ \E i \in 1..Len(results) :
        /\ results[i].coverage > 1
        /\ detectability_results[i].detectability_condition = "Detectable"
    /\ \E i \in 1..Len(results) :
        /\ results[i].coverage > 1
        /\ results[i].num_variant_reads > 0
        /\ detectability_results[i].detectability_condition = "Non-detectable"

\* C2: after the aggregation all counts are >= 0 and ref_count plus the sum
\* of allele_counts is the number of informative reads.
C2_CountsAreReads ==
    pc = "aggregated" =>
        /\ ref_count >= 0
        /\ \A a \in DOMAIN allele_counts : allele_counts[a] >= 0
        /\ \A i \in 1..Len(results) : results[i].coverage = informative

(***************************************************************************)
(* SpecRun: the scoring run on a VCF with a requested process count.       *)
(***************************************************************************)
HeaderLine == <<"#", "#", "s", "r", "c", NL>>
RunLines ==
    { HeaderLine,
      DataLine(<<"1">>, <<"7">>, <<"A">>, <<"T">>),
      DataLine(<<"1">>, <<"8">>, <<"A">>, <<"T", ",", "G">>),
      DataLine(<<"2">>, <<"x">>, <<"A">>, <<"T">>) }

Pending(k) == task[k].status = "pending"
Running(k) == task[k].status = "running"
Idle(p) == \A k \in 1..Len(task) : ~(Running(k) /\ task[k].proc = p)
FirstPending ==
    CHOOSE k \in 1..Len(task) :
        Pending(k) /\ \A j \in 1..(k - 1) : ~Pending(j)
PoolOpen == pc \in {"pool", "aborting"}

InitRun ==
    /\ pc = "read"
    /\ vcf_file \in SeqsUpTo(RunLines, MaxLines)
    /\ num_processes \in 0..MaxProcs
    /\ params = [p_tp |-> 9990, p_fp |-> 10, p_se |-> 1]
    /\ vcf_lines = <<>> /\ chunks = <<>> /\ task = <<>> /\ handle = <<>>
    /\ handle_used_by = <<>> /\ future = <<>> /\ finished = <<>>
    /\ output_file = "absent"
    /\ results = <<>> /\ detectability_results = <<>>
    /\ line = <<>> /\ chrom = <<>> /\ pos = 0 /\ ref = <<>>
    /\ alt_alleles = <<>> /\ pileup = <<>> /\ ref_count = 0
    /\ allele_counts = <<>> /\ informative = 0
    /\ ChunkIdle
    /\ table = <<>> /\ detectability_data_dict = <<>> /\ info_added = FALSE
    /\ info_idx = 0 /\ line_no = 0 /\ updated_vcf_lines = <<>>
    /\ out_vcf = "absent"

runFrame == <<chunkVars, line, chrom, pos, ref, alt_alleles, pileup,
              ref_count, allele_counts, informative, params, vcf_file,
              table, detectability_data_dict, info_added, info_idx, line_no,
              updated_vcf_lines, out_vcf>>

\* lines 144-157
ReadVcf ==
    /\ pc = "read"
    /\ vcf_lines' = SelectLines(vcf_file)
    /\ pc' = "plan"
    /\ UNCHANGED <<num_processes, chunks, task, handle, handle_used_by,
                   future, finished, output_file, results,
                   detectability_results, runFrame>>

\* lines 160-172
PlanChunks ==
    /\ pc = "plan"
    /\ LET n == IF Len(vcf_lines) > 0
                THEN Min(num_processes, Len(vcf_lines)) ELSE 1
       IN  /\ num_processes' = n
           /\ chunks' = chunkify(vcf_lines, n)
    /\ pc' = IF vcf_lines = <<>> THEN "flatten" ELSE "executor"
    /\ UNCHANGED <<vcf_lines, task, handle, handle_used_by, future, finished,
                   output_file, results, detectability_results, runFrame>>

\* line 174: ProcessPoolExecutor(max_workers=0) raises ValueError
ExecutorRejected ==
    /\ pc = "executor"
    /\ num_processes <= 0
    /\ pc' = "crashed"
    /\ UNCHANGED <<vcf_lines, num_processes, chunks, task, handle,
                   handle_used_by, future, finished, output_file, results,
                   detectability_results, runFrame>>

\* lines 174-175: executor.map submits one task per chunk
SubmitAll ==
    /\ pc = "executor"
    /\ num_processes > 0
    /\ task' = [k \in 1..Len(chunks) |->
                    [status |-> "pending", proc |-> 0, at |-> 0, out |-> <<>>]]
    /\ handle' = [k \in 1..Len(chunks) |-> "unopened"]
    /\ handle_used_by' = [k \in 1..Len(chunks) |-> {}]
    /\ future' = [k \in 1..Len(chunks) |-> <<>>]
    /\ pc' = "pool"
    /\ UNCHANGED <<vcf_lines, num_processes, chunks, finished, output_file,
                   results, detectability_results, runFrame>>

\* lines 10-15: an idle pool process takes the next task and opens its handle
WorkerOpen(p) ==
    /\ PoolOpen
    /\ Idle(p)
    /\ \E k \in 1..Len(task) : Pending(k)
    /\ LET k == FirstPending
       IN  /\ task' = [task EXCEPT ![k].status = "running", ![k].proc = p]
           /\ handle' = [handle EXCEPT ![k] = "open"]
           /\ handle_used_by' = [handle_used_by EXCEPT ![k] = @ \cup {p}]
    /\ UNCHANGED <<pc, vcf_lines, num_processes, chunks, future, finished,
                   output_file, results, detectability_results, runFrame>>

\* lines 13-15: pysam.AlignmentFile raises (unreadable file, corrupt index)
WorkerOpenFails(p) ==
    /\ PoolOpen
    /\ Idle(p)
    /\ \E k \in 1..Len(task) : Pending(k)
    /\ LET k == FirstPending
       IN  /\ task' = [task EXCEPT ![k].status = "failed", ![k].proc = p]
           /\ finished' = Append(finished, k)
    /\ UNCHANGED <<pc, vcf_lines, num_processes, chunks, handle,
                   handle_used_by, future, output_file, results,
                   detectability_results, runFrame>>

\* lines 17-86: the next line of the chunk
WorkerVariant(p) ==
    /\ PoolOpen
    /\ \E k \in 1..Len(task) :
        /\ Running(k) /\ task[k].proc = p
        /\ task[k].at < Len(chunks[k])
        /\ task' = [task EXCEPT
                ![k].at = @ + 1,
                ![k].out = @ \o ProcessLine(chunks[k][task[k].at + 1], params)]
        /\ handle_used_by' = [handle_used_by EXCEPT ![k] = @ \cup {p}]
    /\ UNCHANGED <<pc, vcf_lines, num_processes, chunks, handle, future,
                   finished, output_file, results, detectability_results,
                   runFrame>>

\* lines 22-30: the pileup raises (an unknown contig, a read error)
WorkerVariantFails(p) ==
    /\ PoolOpen
    /\ \E k \in 1..Len(task) :
        /\ Running(k) /\ task[k].proc = p
        /\ task[k].at < Len(chunks[k])
        /\ task' = [task EXCEPT ![k].status = "failed"]
        /\ handle_used_by' = [handle_used_by EXCEPT ![k] = @ \cup {p}]
        /\ \E h \in HandleAfterExit : handle' = [handle EXCEPT ![k] = h]
        /\ finished' = Append(finished, k)
    /\ UNCHANGED <<pc, vcf_lines, num_processes, chunks, future, output_file,
                   results, detectability_results, runFrame>>

\* line 88
WorkerReturn(p) ==
    /\ PoolOpen
    /\ \E k \in 1..Len(task) :
        /\ Running(k) /\ task[k].proc = p
        /\ task[k].at = Len(chunks[k])
        /\ task' = [task EXCEPT ![k].status = "done"]
        /\ future' = [future EXCEPT ![k] = task[k].out]
        /\ \E h \in HandleAfterExit : handle' = [handle EXCEPT ![k] = h]
        /\ finished' = Append(finished, k)
    /\ UNCHANGED <<pc, vcf_lines, num_processes, chunks, handle_used_by,
                   output_file, results, detectability_results, runFrame>>

\* line 175: list() takes the next result of executor.map
MainCollect ==
    /\ pc = "pool"
    /\ Len(results) < Len(chunks)
    /\ LET k == NextToCollect(results, finished)
       IN  /\ task[k].status \in {"done", "failed"}
           /\ ~ResultRaises(task[k])
           /\ results' = Append(results, future[k])
    /\ UNCHANGED <<pc, vcf_lines, num_processes, chunks, task, handle,
                   handle_used_by, future, finished, output_file,
                   detectability_results, runFrame>>

\* line 175: the next result raises; the tasks not yet started are cancelled
MainRaise ==
    /\ pc = "pool"
    /\ Len(results) < Len(chunks)
    /\ LET k == NextToCollect(results, finished)
       IN  /\ task[k].status \in {"done", "failed"}
           /\ ResultRaises(task[k])
    /\ task' = [k \in 1..Len(task) |->
                    IF Pending(k) THEN [task[k] EXCEPT !.status = "cancelled"]
                    ELSE task[k]]
    /\ pc' = "aborting"
    /\ UNCHANGED <<vcf_lines, num_processes, chunks, handle, handle_used_by,
                   future, finished, output_file, results,
                   detectability_results, runFrame>>

\* line 174: leaving the with block waits for the running tasks, then the
\* exception ends the program
MainAbort ==
    /\ pc = "aborting"
    /\ \A k \in 1..Len(task) : ~Running(k)
    /\ pc' = "crashed"
    /\ UNCHANGED <<vcf_lines, num_processes, chunks, task, handle,
                   handle_used_by, future, finished, output_file, results,
                   detectability_results, runFrame>>

\* lines 174-175: every result is collected, the pool shuts down
PoolDone ==
    /\ pc = "pool"
    /\ Len(results) = Len(chunks)
    /\ pc' = "flatten"
    /\ UNCHANGED <<vcf_lines, num_processes, chunks, task, handle,
                   handle_used_by, future, finished, output_file, results,
                   detectability_results, runFrame>>

\* lines 177-186
FlattenResults ==
    /\ pc = "flatten"
    /\ results' = Flatten(results)
    /\ IF Flatten(results) = <<>>
       THEN output_file' = <<TableHeader>> /\ pc' = "done"
       ELSE output_file' = output_file /\ pc' = "classify"
    /\ UNCHANGED <<vcf_lines, num_processes, chunks, task, handle,
                   handle_used_by, future, finished, detectability_results,
                   runFrame>>

\* lines 189-213
ClassifyAll ==
    /\ pc = "classify"
    /\ detectability_results' = [i \in 1..Len(results) |-> Classify(results[i])]
    /\ pc' = "write"
    /\ UNCHANGED <<vcf_lines, num_processes, chunks, task, handle,
                   handle_used_by, future, finished, output_file, results,
                   runFrame>>

\* lines 215-253
WriteTable ==
    /\ pc = "write"
    /\ output_file' = <<TableHeader>> \o
            [i \in 1..Len(detectability_results) |->
                OutputRow(detectability_results[i], results)]
    /\ pc' = "done"
    /\ UNCHANGED <<vcf_lines, num_processes, chunks, task, handle,
                   handle_used_by, future, finished, results,
                   detectability_results, runFrame>>

NextRun ==
    \/ ReadVcf
    \/ PlanChunks
    \/ ExecutorRejected
    \/ SubmitAll
    \/ \E p \in 1..num_processes : WorkerOpen(p)
    \/ \E p \in 1..num_processes : WorkerOpenFails(p)
    \/ \E p \in 1..num_processes : WorkerVariant(p)
    \/ \E p \in 1..num_processes : WorkerVariantFails(p)
    \/ \E p \in 1..num_processes : WorkerReturn(p)
    \/ MainCollect
    \/ MainRaise
    \/ MainAbort
    \/ PoolDone
    \/ FlattenResults
    \/ ClassifyAll
    \/ WriteTable
SpecRun == InitRun /\ [][NextRun]_vars

\* the identity columns the rows of the table must have, in VCF input order:
\* per variant line its distinct alternate alleles, in ALT order
RECURSIVE ExpectedIdentities(_)
ExpectedIdentities(ls) ==
    IF ls = <<>> THEN <<>>
    ELSE LET l == Head(ls)
             cols == Split(Strip(l), TAB)
             keys == DictKeys(Split(cols[5], ","))
         IN  IF StartsWith(l, <<"#">>) \/ ~IsInt(cols[2])
             THEN ExpectedIdentities(Tail(ls))
             ELSE [i \in 1..Len(keys) |->
                        <<cols[1], IntStr(ParseInt(cols[2])), cols[4], keys[i]>>]
                  \o ExpectedIdentities(Tail(ls))

\* C7: once a worker has failed, no output table is ever written and the
\* run does not go on to classify or write what the other chunks returned.
C7_NoPartialTable ==
    (\E k \in 1..Len(task) : task[k].status = "failed") =>
        /\ output_file = "absent"
        /\ pc \in {"pool", "aborting", "crashed"}

\* C7 witness: the run has aborted, writing nothing, after it had collected
\* the results of a chunk that completed
C7_Witness ==
    /\ pc = "crashed"
    /\ Len(results) >= 1
    /\ \E k \in 1..Len(task) : task[k].status = "failed"
    /\ output_file = "absent"

C9_InputOrder ==
    (pc = "done" /\ output_file # "absent") =>
        /\ Len(output_file) = 1 + Len(ExpectedIdentities(vcf_file))
        /\ \A i \in 1..Len(ExpectedIdentities(vcf_file)) :
            SubSeq(output_file[i + 1], 1, 4) = ExpectedIdentities(vcf_file)[i]

\* C9 witness: a table of several rows was written after the second chunk
\* finished before the first
C9_Witness ==
    /\ pc = "done"
    /\ Len(chunks) >= 2
    /\ finished[1] # 1
    /\ Len(output_file) >= 4

(***************************************************************************)
(* SpecMerge: the merge pass on a VCF and a detectability table.           *)
(* SpecPipeline: the scoring pass, then the merge pass on the same VCF.    *)
(***************************************************************************)
InfoLine == <<"#", "#", "I", "N", "F", "O", "=", "a", NL>>
ChromLine ==
    Join(<<<<"#", "C", "H", "R", "O", "M">>, <<"P", "O", "S">>, <<"I", "D">>,
           <<"R", "E", "F">>, <<"A", "L", "T">>, <<"Q", "U", "A", "L">>,
           <<"F", "I", "L", "T", "E", "R">>, <<"I", "N", "F", "O">>>>, TAB)
    \o <<NL>>
MergeLines ==
    { HeaderLine, InfoLine, ChromLine,
      DataLine(<<"1">>, <<"7">>, <<"A">>, <<"T">>),
      DataLine(<<"X">>, <<"8">>, <<"A">>, <<"T", ",", "G">>),
      DataLine(<<"1">>, <<"x">>, <<"A">>, <<"T">>) }

TableRow(c, p, r, a, score, cond) ==
    <<c, p, r, a, score, cond, <<"3">>, <<"2">>>>
TableRows ==
    { TableRow(<<"1">>, <<"7">>, <<"A">>, <<"T">>,
               ScoreStr([kind |-> "log10", num |-> 19980, den |-> 21]),
               Detectable),
      TableRow(<<"X">>, <<"8">>, <<"A">>, <<"T">>, <<"0">>, NonDetectable),
      TableRow(<<"X">>, <<"8">>, <<"A">>, <<"G">>, <<"0">>, NonDetectable) }

InitMergeVars ==
    /\ detectability_data_dict = <<>> /\ info_added = FALSE
    /\ info_idx = 0 - 1 /\ line_no = 0 /\ updated_vcf_lines = <<>>
    /\ out_vcf = "absent"

InitMerge ==
    /\ pc = "table"
    /\ vcf_file \in SeqsUpTo(MergeLines, MaxVcf)
    /\ \E rows \in SeqsUpTo(TableRows, MaxRows) : table = <<TableHeader>> \o rows
    /\ InitMergeVars
    /\ ChunkIdle /\ PileupIdle /\ RunIdle

InitPipeline ==
    /\ pc = "score"
    /\ vcf_file \in SeqsUpTo(MergeLines, MaxVcf)
    /\ table = <<>>
    /\ InitMergeVars
    /\ ChunkIdle /\ RunIdle
    /\ params \in Calibrations
    /\ line = <<>> /\ chrom = <<>> /\ pos = 0
    /\ ref = <<>> /\ alt_alleles = <<>> /\ pileup = <<>>
    /\ ref_count = 0 /\ allele_counts = <<>> /\ informative = 0
    /\ results = <<>> /\ detectability_results = <<>>

\* LOD_edit.py, the run as a whole
ScoreVcf ==
    /\ pc = "score"
    /\ table' = ScoringPass(vcf_file, params)
    /\ pc' = "table"
    /\ UNCHANGED <<vcf_file, detectability_data_dict, info_added, info_idx,
                   line_no, updated_vcf_lines, out_vcf, chunkVars, pileupVars,
                   runVars>>

\* lines 12-18
ReadTable ==
    /\ pc = "table"
    /\ detectability_data_dict' = BuildDict(table, Len(table))
    /\ pc' = "lines"
    /\ UNCHANGED <<vcf_file, table, info_added, info_idx, line_no,
                   updated_vcf_lines, out_vcf, chunkVars, pileupVars, runVars>>

\* lines 26-51, one line of the VCF
MergeLine ==
    /\ pc = "lines"
    /\ line_no < Len(vcf_file)
    /\ LET l == vcf_file[line_no + 1]
       IN  /\ ~LineRaises(l, detectability_data_dict, info_idx)
           /\ info_idx' = IF StartsWith(l, <<"#", "C">>)
                          THEN IndexOfInfo(SplitWs(Strip(l))) ELSE info_idx
           /\ IF StartsWith(l, <<"#", "#", "I", "N", "F", "O">>)
              THEN /\ updated_vcf_lines' =
                        updated_vcf_lines \o InfoLines(l, info_added)
                   /\ info_added' = TRUE
              ELSE IF IsHeaderLine(l)
              THEN /\ updated_vcf_lines' = Append(updated_vcf_lines, l)
                   /\ info_added' = info_added
              ELSE /\ updated_vcf_lines' = Append(updated_vcf_lines,
                        DataOutput(l, detectability_data_dict, info_idx))
                   /\ info_added' = info_added
    /\ line_no' = line_no + 1
    /\ UNCHANGED <<pc, vcf_file, table, detectability_data_dict, out_vcf,
                   chunkVars, pileupVars, runVars>>

\* lines 26-51: the line raises and the program ends, nothing written
MergeLineRaises ==
    /\ pc = "lines"
    /\ line_no < Len(vcf_file)
    /\ LineRaises(vcf_file[line_no + 1], detectability_data_dict, info_idx)
    /\ pc' = "crashed"
    /\ UNCHANGED <<vcf_file, table, detectability_data_dict, info_added,
                   info_idx, line_no, updated_vcf_lines, out_vcf, chunkVars,
                   pileupVars, runVars>>

\* lines 54-55
SaveVcf ==
    /\ pc = "lines"
    /\ line_no = Len(vcf_file)
    /\ out_vcf' = updated_vcf_lines
    /\ pc' = "merged"
    /\ UNCHANGED <<vcf_file, table, detectability_data_dict, info_added,
                   info_idx, line_no, updated_vcf_lines, chunkVars,
                   pileupVars, runVars>>

NextMerge ==
    \/ ReadTable
    \/ MergeLine
    \/ MergeLineRaises
    \/ SaveVcf
SpecMerge == InitMerge /\ [][NextMerge]_vars

NextPipeline ==
    \/ ScoreVcf
    \/ ReadTable
    \/ MergeLine
    \/ MergeLineRaises
    \/ SaveVcf
SpecPipeline == InitPipeline /\ [][NextPipeline]_vars

IsInfoLine(l) == StartsWith(l, <<"#", "#", "I", "N", "F", "O">>)
IsDataLine(l) == ~StartsWith(l, <<"#">>)
Columns(l) == Split(Strip(l), TAB)
Count(ls, l) == Cardinality({i \in 1..Len(ls) : ls[i] = l})
InfoCount(ls) == Cardinality({i \in 1..Len(ls) : IsInfoLine(ls[i])})
\* the index of the first ##INFO line of the input, 0 when it has none
FirstInfo(ls) ==
    IF InfoCount(ls) = 0 THEN 0
    ELSE CHOOSE i \in 1..Len(ls) :
            IsInfoLine(ls[i]) /\ \A j \in 1..(i - 1) : ~IsInfoLine(ls[j])
IsNewHeader(l) == l \in {DetHeader, DetsHeader}
\* the written lines without the two new header lines: line i of it is what
\* the merge wrote for line i of the input
RECURSIVE WithoutNewHeaders(_)
WithoutNewHeaders(ls) ==
    IF ls = <<>> THEN <<>>
    ELSE IF IsNewHeader(Head(ls)) THEN WithoutNewHeaders(Tail(ls))
    ELSE <<Head(ls)>> \o WithoutNewHeaders(Tail(ls))

\* C4 as stated: the DET and DETS header lines are inserted exactly once,
\* immediately before the first ##INFO line the input has, however many
\* ##INFO lines there are.
C4_InsertedBeforeFirstInfo ==
    (pc = "merged" /\ FirstInfo(vcf_file) > 0) =>
        /\ Count(out_vcf, DetHeader) = 1
        /\ Count(out_vcf, DetsHeader) = 1
        /\ out_vcf[FirstInfo(vcf_file)] = DetHeader
        /\ out_vcf[FirstInfo(vcf_file) + 1] = DetsHeader
        /\ out_vcf[FirstInfo(vcf_file) + 2] = vcf_file[FirstInfo(vcf_file)]

\* C4 amended: when the input has an ##INFO line, the DET and DETS header
\* lines are inserted exactly once, immediately after the first of them,
\* however many there are; when it has none, they are not inserted.
C4_InsertedAfterFirstInfo ==
    pc = "merged" =>
        IF FirstInfo(vcf_file) > 0
        THEN /\ Count(out_vcf, DetHeader) = 1
             /\ Count(out_vcf, DetsHeader) = 1
             /\ Len(out_vcf) = Len(vcf_file) + 2
             /\ out_vcf[FirstInfo(vcf_file)] = vcf_file[FirstInfo(vcf_file)]
             /\ out_vcf[FirstInfo(vcf_file) + 1] = DetHeader
             /\ out_vcf[FirstInfo(vcf_file) + 2] = DetsHeader
        ELSE /\ Count(out_vcf, DetHeader) = 0
             /\ Count(out_vcf, DetsHeader) = 0
             /\ Len(out_vcf) = Len(vcf_file)

\* C4 witness: a merged VCF whose input had two ##INFO lines after another
\* header line
C4_Witness ==
    /\ pc = "merged"
    /\ InfoCount(vcf_file) >= 2
    /\ FirstInfo(vcf_file) > 1

\* C5: a data record whose position is not a decimal integer does not end
\* the merge: the program never stops on such a line.
C5_BadPositionDoesNotCrash ==
    \A i \in 1..Len(vcf_file) :
        (/\ IsDataLine(vcf_file[i])
         /\ Len(Columns(vcf_file[i])) >= 2
         /\ ~IsInt(Columns(vcf_file[i])[2]))
        => ~(pc = "crashed" /\ line_no + 1 = i)

\* the rows of the table whose identity is that of a data record: the same
\* contig, reference and alternate texts and the same position
MatchingRows(cols) ==
    {r \in 2..Len(table) :
        /\ table[r][1] = cols[1]
        /\ IsInt(table[r][2]) /\ IsInt(cols[2])
        /\ ParseInt(table[r][2]) = ParseInt(cols[2])
        /\ table[r][3] = cols[4]
        /\ table[r][4] = cols[5]}

Annotated(written, cols, r) ==
    LET wcols == Columns(written)
    IN  /\ written[Len(written)] = NL
        /\ Len(wcols) = Len(cols)
        /\ \A j \in 1..Len(cols) : j # 8 => wcols[j] = cols[j]
        /\ StartsWith(wcols[8],
                cols[8] \o <<";", "D", "E", "T", "=">>
                \o (IF table[r][6] = Detectable THEN Yes ELSE No)
                \o <<";", "D", "E", "T", "S", "=">>)

\* C6: in the written VCF every data record whose identity equals that of a
\* table row carries ;DET=<Yes|No>;DETS=<score> at the end of its INFO
\* column, Yes iff the row is Detectable, its other columns unchanged; every
\* other data record and every header line is written unchanged, in order.
C6_MergeOutput ==
    pc = "merged" =>
        LET body == WithoutNewHeaders(out_vcf)
        IN  /\ Len(body) = Len(vcf_file)
            /\ \A i \in 1..Len(vcf_file) :
                IF IsDataLine(vcf_file[i])
                   /\ MatchingRows(Columns(vcf_file[i])) # {}
                THEN \E r \in MatchingRows(Columns(vcf_file[i])) :
                        Annotated(body[i], Columns(vcf_file[i]), r)
                ELSE body[i] = vcf_file[i]

HasComma(t) == \E i \in 1..Len(t) : t[i] = ","
IsVariant(l) ==
    IsDataLine(l) /\ Len(Columns(l)) >= 5 /\ IsInt(Columns(l)[2])
\* the table holds a row for the allele a of the variant line l
HasRowFor(l, a) ==
    \E r \in 2..Len(table) :
        /\ table[r][1] = Columns(l)[1]
        /\ table[r][2] = IntStr(ParseInt(Columns(l)[2]))
        /\ table[r][3] = Columns(l)[4]
        /\ table[r][4] = a

\* C10: in the pipeline the table holds a row for every allele of every
\* variant of the VCF, yet the merge writes every record whose ALT column
\* lists several alleles unchanged: only single-allele records are annotated.
C10_MultiAllelicUnannotated ==
    /\ pc # "score" =>
        \A i \in 1..Len(vcf_file) :
            IsVariant(vcf_file[i]) =>
                \A k \in 1..Len(Split(Columns(vcf_file[i])[5], ",")) :
                    HasRowFor(vcf_file[i], Split(Columns(vcf_file[i])[5], ",")[k])
    /\ LET body == WithoutNewHeaders(updated_vcf_lines)
       IN  /\ Len(body) = line_no
           /\ \A i \in 1..Len(body) :
                (IsDataLine(vcf_file[i]) /\ HasComma(Columns(vcf_file[i])[5]))
                    => body[i] = vcf_file[i]
    /\ pc = "merged" => out_vcf = updated_vcf_lines /\ line_no = Len(vcf_file)

\* C10 witness: a merged VCF with a record of two alleles, written unchanged,
\* and a single-allele record that was annotated
C10_Witness ==
    /\ pc = "merged"
    /\ \E i \in 1..Len(vcf_file) :
        /\ IsVariant(vcf_file[i])
        /\ HasComma(Columns(vcf_file[i])[5])
        /\ WithoutNewHeaders(out_vcf)[i] = vcf_file[i]
    /\ \E i \in 1..Len(vcf_file) :
        /\ IsVariant(vcf_file[i])
        /\ WithoutNewHeaders(out_vcf)[i] # vcf_file[i]

=============================================================================
